---- MODULE Spec2Model ----
(***************************************************************************)
(* Model of the line-oriented TCP command server of                        *)
(* src/Python/interface/matlab.py: the accept loop, one handler thread per *)
(* connection, the shared dictionary global_vars, the process-wide         *)
(* sys.stdout that /eval redirects, and the shutdown path of /close.       *)
(* The power switch of src/Python/hdd/power.py has a specification of its  *)
(* own, SwitchSpec, over its own variables.                                *)
(*                                                                         *)
(* Text is modelled as a sequence of tokens (short strings), so that       *)
(* split, strip, replace, json.loads and json.dumps are computed on it.    *)
(***************************************************************************)
EXTENDS Integers, Sequences, FiniteSets, TLC

\* ------------------------------------------------------------------ bounds
\* Total number of command lines the clients send, over all connections.
MaxLines == 2

\* The client connections of the model.
Conns == {"A", "B"}

\* sys.stdout before any redirection (the process's own stream).
Orig == "orig"

\* ---------------------------------------------------------- text helpers
\* str.strip() removes leading and trailing whitespace.
IsSpace(t) == t \in {" ", "\n"}

RECURSIVE LStrip(_)
LStrip(s) == IF s # <<>> /\ IsSpace(Head(s)) THEN LStrip(Tail(s)) ELSE s

RECURSIVE RStrip(_)
RStrip(s) ==
    IF s # <<>> /\ IsSpace(s[Len(s)]) THEN RStrip(SubSeq(s, 1, Len(s) - 1)) ELSE s

Strip(s) == RStrip(LStrip(s))

\* Index of the first occurrence of sep in s, 0 when there is none.
IndexOf(s, sep) ==
    IF \E i \in 1..Len(s) : s[i] = sep
    THEN CHOOSE i \in 1..Len(s) : s[i] = sep /\ \A j \in 1..(i - 1) : s[j] # sep
    ELSE 0

\* str.split(sep, 1): one part when sep is absent, two parts otherwise.
Split1(s, sep) ==
    LET i == IndexOf(s, sep)
    IN  IF i = 0 THEN <<s>> ELSE <<SubSeq(s, 1, i - 1), SubSeq(s, i + 1, Len(s))>>

\* The text without its whitespace tokens (what a tokenizer sees).
RECURSIVE NoSpace(_)
NoSpace(s) ==
    IF s = <<>> THEN <<>>
    ELSE IF IsSpace(Head(s)) THEN NoSpace(Tail(s))
    ELSE <<Head(s)>> \o NoSpace(Tail(s))

\* f"{result}".replace(']\n', '];').replace('\n', ','), left to right.
RECURSIVE ReplaceBracketNewline(_)
ReplaceBracketNewline(s) ==
    IF Len(s) < 2 THEN s
    ELSE IF s[1] = "]" /\ s[2] = "\n"
         THEN <<"]", ";">> \o ReplaceBracketNewline(SubSeq(s, 3, Len(s)))
         ELSE <<s[1]>> \o ReplaceBracketNewline(Tail(s))

ReplaceNewline(s) == [i \in 1..Len(s) |-> IF s[i] = "\n" THEN "," ELSE s[i]]

Flatten(s) == ReplaceNewline(ReplaceBracketNewline(s))

\* Number of line terminators in a text.
RECURSIVE CountNewlines(_)
CountNewlines(s) ==
    IF s = <<>> THEN 0
    ELSE (IF Head(s) = "\n" THEN 1 ELSE 0) + CountNewlines(Tail(s))

\* ----------------------------------------------------------------- values
\* A Python value: its type and its str() text.
Val(t, v) == [t |-> t, v |-> v]

Int5 == Val("int", <<"5">>)
StrAB == Val("str", <<"a", "\n", "b">>)
Ones == Val("ndarray", <<"[", "[", "1. 1.", "]", "\n", " ", "[", "1. 1.", "]", "]">>)
None == Val("NoneType", <<"None">>)

IsStr(val) == val.t = "str"

\* str(value)
PyStr(val) == val.v

\* repr(value): a string is quoted and its newlines escaped.
PyRepr(val) ==
    IF IsStr(val)
    THEN <<"'">> \o [i \in 1..Len(val.v) |-> IF val.v[i] = "\n" THEN "\\n" ELSE val.v[i]]
         \o <<"'">>
    ELSE val.v

\* ------------------------------------------------------------------- JSON
\* The JSON number literals of the model and the Python number each parses to.
JsonNumbers == {"1", "2.0", "1e2", "100.0"}

NumType(tok) == IF tok = "1" THEN "int" ELSE "float"

\* repr of the parsed number: 1e2 is the float 100.0.
NumRepr(tok) == IF tok = "1e2" THEN "100.0" ELSE tok

\* The elements of a comma-separated list of number literals, or <<"!">> on a
\* syntax error.
RECURSIVE JsonElements(_)
JsonElements(s) ==
    IF s = <<>> THEN <<"!">>
    ELSE IF Head(s) \notin JsonNumbers THEN <<"!">>
    ELSE IF Len(s) = 1 THEN <<NumRepr(s[1])>>
    ELSE IF s[2] # "," THEN <<"!">>
    ELSE LET rest == JsonElements(SubSeq(s, 3, Len(s)))
         IN  IF rest = <<"!">> THEN rest ELSE <<NumRepr(s[1])>> \o rest

RECURSIVE JoinComma(_)
JoinComma(elems) ==
    IF Len(elems) <= 1 THEN elems
    ELSE <<Head(elems), ",", " ">> \o JoinComma(Tail(elems))

\* json.loads(text): whitespace between tokens is insignificant.
JsonLoads(text) ==
    LET s == NoSpace(text)
        n == Len(s)
    IN  IF n = 1 /\ s[1] \in JsonNumbers
        THEN [ok |-> TRUE, val |-> Val(NumType(s[1]), <<NumRepr(s[1])>>)]
        ELSE IF n >= 2 /\ s[1] = "[" /\ s[n] = "]"
        THEN IF n = 2
             THEN [ok |-> TRUE, val |-> Val("list", <<"[", "]">>)]
             ELSE LET elems == JsonElements(SubSeq(s, 2, n - 1))
                  IN  IF elems = <<"!">>
                      THEN [ok |-> FALSE, val |-> None]
                      ELSE [ok |-> TRUE,
                            val |-> Val("list", <<"[">> \o JoinComma(elems) \o <<"]">>)]
        ELSE [ok |-> FALSE, val |-> None]

\* Everything serialized as the JSON string of its str().
JsonDumpsAsText(val) == [ok |-> TRUE, text |-> <<"\"">> \o val.v \o <<"\"">>]

\* json.dumps(value): numbers and lists of numbers print as Python prints
\* them, a string is double-quoted with its newlines escaped, and an ndarray
\* is not JSON serializable.
JsonDumps(val) ==
    IF val.t \in {"int", "float", "list"} THEN [ok |-> TRUE, text |-> val.v]
    ELSE IF val.t = "str"
    THEN [ok |-> TRUE,
          text |-> <<"\"">>
                   \o [i \in 1..Len(val.v) |-> IF val.v[i] = "\n" THEN "\\n" ELSE val.v[i]]
                   \o <<"\"">>]
    ELSE IF val.t = "NoneType" THEN [ok |-> TRUE, text |-> <<"null">>]
    ELSE [ok |-> FALSE, text |-> <<"Object of type ndarray is not JSON serializable">>]

\* ------------------------------------------------------------- dictionary
\* global_vars is a Python dict: a function whose domain is its key set.
EmptyDict == [k \in {} |-> None]

Has(d, k) == k \in DOMAIN d

DictSet(d, k, val) == [j \in (DOMAIN d) \cup {k} |-> IF j = k THEN val ELSE d[j]]

\* ------------------------------------------------- the Python interpreter
\* eval(expr, globals(), global_vars) for the expressions of the model:
\* an optional "print('p') or " prefix, which writes one line to sys.stdout
\* and then evaluates the rest, followed by a literal, a name looked up in
\* global_vars, or a call. kind is "value", "error" (an Exception) or "exit"
\* (SystemExit, which is a BaseException but not an Exception).
Literals == {"5", "'a\\nb'", "np.ones((2,2))"}

LiteralValue(tok) ==
    CASE tok = "5" -> Int5
      [] tok = "'a\\nb'" -> StrAB
      [] OTHER -> Ones

Identifiers == {"x", "y"}

EvalAtom(tok, locals) ==
    IF tok \in Literals THEN [kind |-> "value", val |-> LiteralValue(tok), msg |-> <<>>]
    ELSE IF tok \in Identifiers
    THEN IF Has(locals, <<tok>>)
         THEN [kind |-> "value", val |-> locals[<<tok>>], msg |-> <<>>]
         ELSE [kind |-> "error", val |-> None, msg |-> <<"name '", tok, "' is not defined">>]
    ELSE IF tok = "1/0" THEN [kind |-> "error", val |-> None, msg |-> <<"division by zero">>]
    ELSE IF tok = "exit()" THEN [kind |-> "exit", val |-> None, msg |-> <<>>]
    ELSE [kind |-> "error", val |-> None, msg |-> <<"invalid syntax">>]

PyEval(expr, locals) ==
    LET e == NoSpace(expr)
        prints == Len(e) >= 2 /\ e[1] = "print('p')" /\ e[2] = "or"
        a == IF prints THEN SubSeq(e, 3, Len(e)) ELSE e
        r == IF Len(a) = 1 THEN EvalAtom(a[1], locals) ELSE EvalAtom("", locals)
    IN  [emit |-> prints, kind |-> r.kind, val |-> r.val, msg |-> r.msg]

\* exec(stmt, globals(), global_vars): an assignment binds the name in
\* global_vars, the locals of the call; a raise statement raises.
PyExec(stmt, locals) ==
    LET e == NoSpace(stmt)
    IN  IF Len(e) = 3 /\ e[2] = "="
        THEN LET r == EvalAtom(e[3], locals)
             IN  IF r.kind = "value"
                 THEN [kind |-> "value", name |-> <<e[1]>>, val |-> r.val, msg |-> <<>>]
                 ELSE [kind |-> r.kind, name |-> <<>>, val |-> None, msg |-> r.msg]
        ELSE IF Len(e) = 2 /\ e[1] = "raise"
        THEN [kind |-> "error", name |-> <<>>, val |-> None, msg |-> <<"v">>]
        ELSE [kind |-> "error", name |-> <<>>, val |-> None, msg |-> <<"invalid syntax">>]

\* ------------------------------------------------------------ the protocol
\* The command lines a client can send (without the line terminator).
Lines ==
    { <<"/set", " ", "x", "=", "5">>,
      <<"/set", " ", "x", "=", "np.ones((2,2))">>,
      <<"/set", " ", "y", " ", "=", "'a\\nb'">>,
      <<"/set", " ", "x">>,
      <<"/set", " ", "y", "=", "1/0">>,
      <<"/get", " ", "x">>,
      <<"/get", " ", "y">>,
      <<"/set_json", " ", "x", " ", "[", "1", ",", "1e2", "]">>,
      <<"/set_json", " ", "x", " ", "[", "1", ",">>,
      <<"/get_json", " ", "x">>,
      <<"/eval", " ", "print('p')", " ", "or", " ", "x">>,
      <<"/eval", " ", "print('p')", " ", "or", " ", "5">>,
      <<"/eval", " ", "exit()">>,
      <<"/exec", " ", "x", "=", "y">>,
      <<"/exec", " ", "raise", " ", "ValueError('v')">>,
      <<"/exit">>,
      <<"/close">>,
      <<"/bogus">>,
      <<" ">> }

\* command_line = client_file.readline().strip()
CommandLine(text) == Strip(text \o <<"\n">>)

\* parts = command_line.split(' ', 1); cmd = parts[0]; arg = parts[1] or ''
CmdOf(cl) == Split1(cl, " ")[1]

ArgOf(cl) == IF Len(Split1(cl, " ")) > 1 THEN Split1(cl, " ")[2] ELSE <<>>

Verbs == {<<"/eval">>, <<"/exec">>, <<"/get">>, <<"/set">>, <<"/set_json">>,
          <<"/get_json">>, <<"/exit">>, <<"/close">>}

\* One sendall: the command (by its position in what the client sent) that
\* produced it, the kind of reply and its variable text.
Reply(k, tag, body) == [k |-> k, tag |-> tag, body |-> body]

\* Rendering of a value in the replies of /eval and /get.
Render(val) == IF ~IsStr(val) THEN Flatten(PyStr(val)) ELSE PyStr(val)

\* Strings rendered like every other value, without the quotes.
GetReplyBare(k, val) == Reply(k, "Value", Flatten(PyStr(val)))

GetReply(k, val) ==
    IF ~IsStr(val) THEN Reply(k, "Value", Flatten(PyStr(val)))
    ELSE Reply(k, "Value", <<"\"">> \o PyStr(val) \o <<"\"">>)

\* ------------------------------------------------------------------ state
VARIABLES
    global_vars,   \* the shared dictionary of variables
    sys_stdout,    \* the stream sys.stdout is bound to: Orig or a StringIO
    conn,          \* per connection: the handler thread, its socket, its locals
    serve,         \* the main thread in start_server and the server's flags
    shut,          \* per connection: the shutdown thread its /close started
    lastw,         \* history: per name, the last write to it
    nsent,         \* history: number of lines sent so far
    switch,        \* hdd/power.py: the Switch object, its _dev and _state
    ftdi,          \* hdd/power.py: the device, what was asked of it
    called         \* history: the last call on the Switch and its result

\* The state of the power switch; the server never touches it.
switch_vars == <<switch, ftdi, called>>

\* The state of the server; the power switch never touches it.
server_vars == <<global_vars, sys_stdout, conn, serve, shut, lastw, nsent>>

vars == <<global_vars, sys_stdout, conn, serve, shut, lastw, nsent, switch, ftdi, called>>

NoCmd == [k |-> 0, text |-> <<>>]

NoResult == [emit |-> FALSE, kind |-> "value", val |-> None, msg |-> <<>>]

\* The StringIO created by the /eval that is command k of connection c.
Stream(c, k) == <<c, k>>

InitConn ==
    [st |-> "none", peer |-> "up", sock |-> <<>>, cur |-> NoCmd, name |-> <<>>,
     res |-> NoResult, old_stdout |-> <<Orig, 0>>, buf |-> <<>>, out |-> <<>>,
     sent |-> 0, how |-> "open"]

Init ==
    /\ global_vars = EmptyDict
    /\ sys_stdout = <<Orig, 0>>
    /\ conn = [c \in Conns |-> InitConn]
    /\ serve = [pc |-> "loop", shutdown_request |-> FALSE, is_shut_down |-> FALSE,
                listening |-> TRUE]
    /\ shut = [c \in Conns |-> "none"]
    /\ lastw = EmptyDict
    /\ nsent = 0
    /\ switch = [dev |-> <<>>, state |-> <<>>]
    /\ ftdi = [ops |-> 0, mask |-> <<>>]
    /\ called = [n |-> 0, op |-> "none", arg |-> <<>>, ok |-> FALSE, ret |-> <<>>]

\* ---------------------------------------------------------------- helpers
\* The handler is blocked in readline() and a line has arrived.
Ready(c) == conn[c].st = "read" /\ conn[c].peer = "up" /\ conn[c].sock # <<>>

\* The stripped line readline() returns next on connection c.
NextLine(c) == CommandLine(Head(conn[c].sock).text)

\* After readline(): the reader of this iteration pulled everything that had
\* arrived from the socket into its buffer and returned the first line; the
\* next iteration makes a new reader, and the buffered rest goes with the old.
Taken(c) == [conn[c] EXCEPT !.sock = <<>>, !.cur = Head(conn[c].sock)]

\* handle() returned (break, or an exception left it): the framework closes
\* the request socket.
\* The handler's locals once a command is done: nothing reads them again.
Done(cr) ==
    [cr EXCEPT !.cur = NoCmd, !.name = <<>>, !.res = NoResult,
               !.old_stdout = <<Orig, 0>>, !.buf = <<>>]

Close(cr, how) == [Done(cr) EXCEPT !.st = "closed", !.how = how, !.peer = "gone"]

\* self.request.sendall(...): to a peer that reset the connection it raises;
\* raised in the inner try it is caught at line 137, the sendall of line 139
\* raises again, and the outer handlers break.
Send(cr, replies, st) ==
    IF cr.peer = "up" THEN [Done(cr) EXCEPT !.out = @ \o replies, !.st = st]
    ELSE Close(cr, "fault")

\* The StringIO s is the redirected_output of an /eval still in progress.
Capturing(cf, s) ==
    /\ s[1] \in Conns
    /\ cf[s[1]].st \in {"eval_run", "eval_ok", "eval_fail"}
    /\ cf[s[1]].cur.k = s[2]

\* print(...): one line, marked with its source, goes to the stream
\* sys.stdout is bound to at that moment.
Emit(cf, src) ==
    IF Capturing(cf, sys_stdout)
    THEN [cf EXCEPT ![sys_stdout[1]].buf = Append(@, src)]
    ELSE cf

\* The dictionary rebound to one holding only the new entry.
StoreWriteRebind(d, k, val) == [j \in {k} |-> val]

\* global_vars[var_name] = var_value
StoreWrite(d, k, val) == DictSet(d, k, val)

\* A write by the handler of `verb`; text is the JSON text of a /set_json.
Write(k, val, verb, text) ==
    /\ global_vars' = StoreWrite(global_vars, k, val)
    /\ lastw' = DictSet(lastw, k, [val |-> val, verb |-> verb, text |-> text])

NoWrite == UNCHANGED <<global_vars, lastw>>

\* ---------------------------------------------------------------- clients
\* A client connects while the listening socket is open.
ClientConnect(c) ==
    /\ conn[c].st = "none"
    /\ serve.listening
    /\ conn' = [conn EXCEPT ![c].st = "backlog"]
    /\ UNCHANGED <<global_vars, sys_stdout, serve, shut, lastw, nsent, switch_vars>>

\* A line that arrives behind one not yet read is pulled from the socket by
\* the reader that returns the first, and goes with that reader (see Taken):
\* no readline() returns it, so of its text only whether it is blank is kept.
Unread(text) == IF CommandLine(text) = <<>> THEN <<>> ELSE <<"_">>

\* A client that has been greeted sends one more line, whether or not the
\* replies to its earlier lines have arrived.
ClientSend(c, text) ==
    /\ conn[c].st \in {"read", "eval_run", "eval_ok", "eval_fail", "set_store"}
    /\ conn[c].peer = "up"
    /\ nsent < MaxLines
    /\ conn' = [conn EXCEPT ![c].sock = Append(@, [k |-> conn[c].sent + 1,
                                                    text |-> IF conn[c].sock = <<>> THEN text
                                                             ELSE Unread(text)]),
                            ![c].sent = @ + 1]
    /\ nsent' = nsent + 1
    /\ UNCHANGED <<global_vars, sys_stdout, serve, shut, lastw, switch_vars>>

\* The client goes away without closing in order while its handler is busy:
\* the handler's next sendall raises ConnectionResetError or BrokenPipeError.
PeerReset(c) ==
    /\ conn[c].st \in {"hello", "eval_run", "eval_ok", "eval_fail", "set_store"}
    /\ conn[c].peer = "up"
    /\ conn' = [conn EXCEPT ![c].peer = "reset"]
    /\ UNCHANGED <<global_vars, sys_stdout, serve, shut, lastw, nsent, switch_vars>>

\* ---------------------------------------------------------------- handler
\* A handler that enters its loop without sending the greeting.
GreetSilent(c) ==
    /\ conn[c].st = "hello"
    /\ conn' = [conn EXCEPT ![c] = Send(@, <<>>, "read")]
    /\ UNCHANGED <<global_vars, sys_stdout, serve, shut, lastw, nsent, switch_vars>>

\* Lines 28-29.
Greet(c) ==
    /\ conn[c].st = "hello"
    /\ conn' = [conn EXCEPT ![c] = Send(@, <<Reply(0, "Hello", <<>>)>>, "read")]
    /\ UNCHANGED <<global_vars, sys_stdout, serve, shut, lastw, nsent, switch_vars>>

\* A fault in readline() that takes every connection down with it.
ReadFaultClosingAll(c) ==
    /\ conn[c].st = "read"
    /\ conn' = [d \in Conns |-> IF conn[d].st \in {"none", "closed"} THEN conn[d]
                                ELSE Close(conn[d], "fault")]
    /\ UNCHANGED <<global_vars, sys_stdout, serve, shut, lastw, nsent, switch_vars>>

\* Lines 141-149: the client goes away while the handler is blocked in
\* readline(), which raises.
ReadFault(c) ==
    /\ conn[c].st = "read"
    /\ conn' = [conn EXCEPT ![c] = Close(@, "fault")]
    /\ UNCHANGED <<global_vars, sys_stdout, serve, shut, lastw, nsent, switch_vars>>

\* Lines 39-42.
DoEmpty(c) ==
    /\ Ready(c)
    /\ NextLine(c) = <<>>
    /\ conn' = [conn EXCEPT ![c] = Close(Taken(c), "empty")]
    /\ UNCHANGED <<global_vars, sys_stdout, serve, shut, lastw, nsent, switch_vars>>

\* Lines 50-54.
DoEvalBegin(c) ==
    /\ Ready(c)
    /\ CmdOf(NextLine(c)) = <<"/eval">>
    /\ conn' = [conn EXCEPT ![c] = [Taken(c) EXCEPT !.st = "eval_run",
                                                    !.old_stdout = sys_stdout,
                                                    !.buf = <<>>]]
    /\ sys_stdout' = Stream(c, Head(conn[c].sock).k)
    /\ UNCHANGED <<global_vars, serve, shut, lastw, nsent, switch_vars>>

\* Line 56: the expression runs; SystemExit passes both except clauses and
\* ends the handler thread.
EvalRun(c) ==
    /\ conn[c].st = "eval_run"
    /\ LET r == PyEval(ArgOf(CommandLine(conn[c].cur.text)), global_vars)
           cf == IF r.emit THEN Emit(conn, c) ELSE conn
       IN  conn' = [cf EXCEPT ![c] =
                       IF r.kind = "exit" THEN Close(@, "escaped")
                       ELSE [@ EXCEPT !.res = r,
                                      !.st = IF r.kind = "value" THEN "eval_ok"
                                             ELSE "eval_fail"]]
    /\ UNCHANGED <<global_vars, sys_stdout, serve, shut, lastw, nsent, switch_vars>>

\* Lines 57-61.
EvalFail(c) ==
    /\ conn[c].st = "eval_fail"
    /\ sys_stdout' = conn[c].old_stdout
    /\ conn' = [conn EXCEPT ![c] =
                   Send(@, <<Reply(@.cur.k, "EvalError", @.res.msg)>>, "read")]
    /\ UNCHANGED <<global_vars, serve, shut, lastw, nsent, switch_vars>>

\* Lines 63-73.
EvalEnd(c) ==
    /\ conn[c].st = "eval_ok"
    /\ sys_stdout' = conn[c].old_stdout
    /\ LET k == conn[c].cur.k
           captured_output == conn[c].buf
           result == conn[c].res.val
       IN  conn' = [conn EXCEPT ![c] =
               Send(@, (IF captured_output # <<>>
                        THEN <<Reply(k, "Print", captured_output)>> ELSE <<>>)
                       \o <<Reply(k, "Result", Render(result))>>, "read")]
    /\ UNCHANGED <<global_vars, serve, shut, lastw, nsent, switch_vars>>

\* Lines 75-77, and 137-139 when exec raises.
DoExec(c) ==
    /\ Ready(c)
    /\ CmdOf(NextLine(c)) = <<"/exec">>
    /\ LET k == Head(conn[c].sock).k
           r == PyExec(ArgOf(NextLine(c)), global_vars)
       IN  /\ IF r.kind = "value" THEN Write(r.name, r.val, "/exec", <<>>) ELSE NoWrite
           /\ conn' = [conn EXCEPT ![c] =
                  IF r.kind = "value" THEN Send(Taken(c), <<Reply(k, "ExecOk", <<>>)>>, "read")
                  ELSE IF r.kind = "error"
                  THEN Send(Taken(c), <<Reply(k, "ServerError", r.msg)>>, "read")
                  ELSE Close(Taken(c), "escaped")]
    /\ UNCHANGED <<sys_stdout, serve, shut, nsent, switch_vars>>

\* A lookup that inserts the missing name, as dict.setdefault would.
DoGetInserting(c) ==
    /\ Ready(c)
    /\ CmdOf(NextLine(c)) = <<"/get">>
    /\ LET k == Head(conn[c].sock).k
           arg == ArgOf(NextLine(c))
       IN  /\ global_vars' = IF Has(global_vars, arg) THEN global_vars
                             ELSE DictSet(global_vars, arg, None)
           /\ conn' = [conn EXCEPT ![c] =
                  IF Has(global_vars, arg)
                  THEN Send(Taken(c), <<GetReply(k, global_vars[arg])>>, "read")
                  ELSE Send(Taken(c), <<Reply(k, "NotFound", arg)>>, "read")]
    /\ UNCHANGED <<sys_stdout, serve, shut, lastw, nsent, switch_vars>>

\* Lines 79-89.
DoGet(c) ==
    /\ Ready(c)
    /\ CmdOf(NextLine(c)) = <<"/get">>
    /\ LET k == Head(conn[c].sock).k
           arg == ArgOf(NextLine(c))
       IN  conn' = [conn EXCEPT ![c] =
               IF Has(global_vars, arg)
               THEN Send(Taken(c), <<GetReply(k, global_vars[arg])>>, "read")
               ELSE Send(Taken(c), <<Reply(k, "NotFound", arg)>>, "read")]
    /\ UNCHANGED <<global_vars, sys_stdout, serve, shut, lastw, nsent, switch_vars>>

\* A /set outside the inner try: what it raises ends the handler.
DoSetUncaught(c) ==
    /\ Ready(c)
    /\ CmdOf(NextLine(c)) = <<"/set">>
    /\ LET parts == Split1(ArgOf(NextLine(c)), "=")
           r == IF Len(parts) = 2 THEN PyEval(parts[2], global_vars) ELSE NoResult
           cf == IF r.emit THEN Emit(conn, c) ELSE conn
       IN  conn' = [cf EXCEPT ![c] =
               IF Len(parts) < 2 \/ r.kind = "error" THEN Close(Taken(c), "fault")
               ELSE IF r.kind = "exit" THEN Close(Taken(c), "escaped")
               ELSE [Taken(c) EXCEPT !.st = "set_store", !.name = Strip(parts[1]),
                                     !.res = r]]
    /\ UNCHANGED <<global_vars, sys_stdout, serve, shut, lastw, nsent, switch_vars>>

\* Lines 91-94: split, strip and evaluate; 137-139 when one of them raises.
DoSet(c) ==
    /\ Ready(c)
    /\ CmdOf(NextLine(c)) = <<"/set">>
    /\ LET k == Head(conn[c].sock).k
           parts == Split1(ArgOf(NextLine(c)), "=")
           r == IF Len(parts) = 2 THEN PyEval(parts[2], global_vars) ELSE NoResult
           cf == IF r.emit THEN Emit(conn, c) ELSE conn
       IN  conn' = [cf EXCEPT ![c] =
               IF Len(parts) < 2
               THEN Send(Taken(c), <<Reply(k, "ServerError",
                         <<"not enough values to unpack (expected 2, got 1)">>)>>, "read")
               ELSE IF r.kind = "error"
               THEN Send(Taken(c), <<Reply(k, "ServerError", r.msg)>>, "read")
               ELSE IF r.kind = "exit" THEN Close(Taken(c), "escaped")
               ELSE [Taken(c) EXCEPT !.st = "set_store", !.name = Strip(parts[1]),
                                     !.res = r]]
    /\ UNCHANGED <<global_vars, sys_stdout, serve, shut, lastw, nsent, switch_vars>>

\* Lines 95-96.
SetStore(c) ==
    /\ conn[c].st = "set_store"
    /\ Write(conn[c].name, conn[c].res.val, "/set", <<>>)
    /\ conn' = [conn EXCEPT ![c] =
           Send(@, <<Reply(@.cur.k, "SetOk", @.name \o <<"=">> \o PyRepr(@.res.val))>>,
                "read")]
    /\ UNCHANGED <<sys_stdout, serve, shut, nsent, switch_vars>>

\* A /set_json that binds the name before it parses: on a parse failure the
\* name is left bound to None.
DoSetJsonBindingFirst(c) ==
    /\ Ready(c)
    /\ CmdOf(NextLine(c)) = <<"/set_json">>
    /\ LET k == Head(conn[c].sock).k
           parts == Split1(ArgOf(NextLine(c)), " ")
           var_name == Strip(parts[1])
           r == IF Len(parts) = 2 THEN JsonLoads(parts[2]) ELSE [ok |-> FALSE, val |-> None]
       IN  /\ IF Len(parts) = 2 THEN Write(var_name, r.val, "/set_json", parts[2])
              ELSE NoWrite
           /\ conn' = [conn EXCEPT ![c] =
                  IF Len(parts) < 2
                  THEN Send(Taken(c), <<Reply(k, "ServerError",
                            <<"not enough values to unpack (expected 2, got 1)">>)>>, "read")
                  ELSE IF ~r.ok
                  THEN Send(Taken(c), <<Reply(k, "SetJsonError", <<"Expecting value">>)>>,
                            "read")
                  ELSE Send(Taken(c), <<Reply(k, "SetJsonOk", var_name)>>, "read")]
    /\ UNCHANGED <<sys_stdout, serve, shut, nsent, switch_vars>>

\* Lines 98-108, and 137-139 when the argument has no space.
DoSetJson(c) ==
    /\ Ready(c)
    /\ CmdOf(NextLine(c)) = <<"/set_json">>
    /\ LET k == Head(conn[c].sock).k
           parts == Split1(ArgOf(NextLine(c)), " ")
           var_name == Strip(parts[1])
           r == IF Len(parts) = 2 THEN JsonLoads(parts[2]) ELSE [ok |-> FALSE, val |-> None]
       IN  /\ IF r.ok THEN Write(var_name, r.val, "/set_json", parts[2]) ELSE NoWrite
           /\ conn' = [conn EXCEPT ![c] =
                  IF Len(parts) < 2
                  THEN Send(Taken(c), <<Reply(k, "ServerError",
                            <<"not enough values to unpack (expected 2, got 1)">>)>>, "read")
                  ELSE IF ~r.ok
                  THEN Send(Taken(c), <<Reply(k, "SetJsonError", <<"Expecting value">>)>>,
                            "read")
                  ELSE Send(Taken(c), <<Reply(k, "SetJsonOk", var_name)>>, "read")]
    /\ UNCHANGED <<sys_stdout, serve, shut, nsent, switch_vars>>

\* Lines 110-119.
DoGetJson(c) ==
    /\ Ready(c)
    /\ CmdOf(NextLine(c)) = <<"/get_json">>
    /\ LET k == Head(conn[c].sock).k
           var_name == Strip(ArgOf(NextLine(c)))
           d == IF Has(global_vars, var_name) THEN JsonDumps(global_vars[var_name])
                ELSE [ok |-> FALSE, text |-> <<>>]
       IN  conn' = [conn EXCEPT ![c] =
               IF ~Has(global_vars, var_name)
               THEN Send(Taken(c), <<Reply(k, "NotFound", var_name)>>, "read")
               ELSE IF d.ok THEN Send(Taken(c), <<Reply(k, "Json", d.text)>>, "read")
               ELSE Send(Taken(c), <<Reply(k, "GetJsonError", d.text)>>, "read")]
    /\ UNCHANGED <<global_vars, sys_stdout, serve, shut, lastw, nsent, switch_vars>>

\* An /exit that also clears the shared dictionary.
DoExitClearing(c) ==
    /\ Ready(c)
    /\ CmdOf(NextLine(c)) = <<"/exit">>
    /\ conn' = [Emit(conn, "diag") EXCEPT ![c] = Close(Taken(c), "exit")]
    /\ global_vars' = EmptyDict
    /\ UNCHANGED <<sys_stdout, serve, shut, lastw, nsent, switch_vars>>

\* Lines 121-123.
DoExit(c) ==
    /\ Ready(c)
    /\ CmdOf(NextLine(c)) = <<"/exit">>
    /\ conn' = [Emit(conn, "diag") EXCEPT ![c] = Close(Taken(c), "exit")]
    /\ UNCHANGED <<global_vars, sys_stdout, serve, shut, lastw, nsent, switch_vars>>

\* Lines 125-131.
DoClose(c) ==
    /\ Ready(c)
    /\ CmdOf(NextLine(c)) = <<"/close">>
    /\ LET k == Head(conn[c].sock).k
       IN  conn' = [Emit(conn, "diag") EXCEPT ![c] =
               Close(Send(Taken(c), <<Reply(k, "Closing", <<>>)>>, "read"), "close")]
    /\ shut' = [shut EXCEPT ![c] = "start"]
    /\ UNCHANGED <<global_vars, sys_stdout, serve, lastw, nsent, switch_vars>>

\* Lines 133-135.
DoUnrecognized(c) ==
    /\ Ready(c)
    /\ NextLine(c) # <<>>
    /\ CmdOf(NextLine(c)) \notin Verbs
    /\ LET k == Head(conn[c].sock).k
       IN  conn' = [Emit(conn, "diag") EXCEPT ![c] =
               Send(Taken(c), <<Reply(k, "Unrecognized", NextLine(c))>>, "read")]
    /\ UNCHANGED <<global_vars, sys_stdout, serve, shut, lastw, nsent, switch_vars>>

\* ----------------------------------------------------------------- server
\* A serve_forever() that returns without setting the event shutdown() waits
\* for.
ServeCheckNoEvent ==
    /\ serve.pc = "loop"
    /\ IF serve.shutdown_request
       THEN serve' = [serve EXCEPT !.pc = "stopped", !.shutdown_request = FALSE]
       ELSE /\ \E c \in Conns : conn[c].st = "backlog"
            /\ serve' = [serve EXCEPT !.pc = "accept"]
    /\ UNCHANGED <<global_vars, sys_stdout, conn, shut, lastw, nsent, switch_vars>>

\* server.serve_forever() (line 167), one turn of its loop: it returns when
\* a shutdown was requested, clearing the request and setting the event
\* shutdown() waits for; otherwise it goes on to accept a pending connection.
ServeCheck ==
    /\ serve.pc = "loop"
    /\ IF serve.shutdown_request
       THEN serve' = [serve EXCEPT !.pc = "stopped", !.shutdown_request = FALSE,
                                   !.is_shut_down = TRUE]
       ELSE /\ \E c \in Conns : conn[c].st = "backlog"
            /\ serve' = [serve EXCEPT !.pc = "accept"]
    /\ UNCHANGED <<global_vars, sys_stdout, conn, shut, lastw, nsent, switch_vars>>

\* The accept of that turn: the connection gets its own handler thread
\* (ThreadedTCPServer, lines 152-153).
ServeAccept(c) ==
    /\ serve.pc = "accept"
    /\ conn[c].st = "backlog"
    /\ conn' = [conn EXCEPT ![c].st = "hello"]
    /\ serve' = [serve EXCEPT !.pc = "loop"]
    /\ UNCHANGED <<global_vars, sys_stdout, shut, lastw, nsent, switch_vars>>

\* Line 171, server.shutdown(): request the shutdown ...
MainShutdown ==
    /\ serve.pc = "stopped"
    /\ serve' = [serve EXCEPT !.pc = "shut_wait", !.shutdown_request = TRUE]
    /\ UNCHANGED <<global_vars, sys_stdout, conn, shut, lastw, nsent, switch_vars>>

\* ... and wait until serve_forever() has returned.
MainShutdownWait ==
    /\ serve.pc = "shut_wait"
    /\ serve.is_shut_down
    /\ serve' = [serve EXCEPT !.pc = "closing"]
    /\ UNCHANGED <<global_vars, sys_stdout, conn, shut, lastw, nsent, switch_vars>>

\* server_close() left out: the listening socket stays open.
ServerCloseSkipped ==
    /\ serve.pc = "closing"
    /\ serve' = [serve EXCEPT !.pc = "returned"]
    /\ UNCHANGED <<global_vars, sys_stdout, conn, shut, lastw, nsent, switch_vars>>

\* Line 172, server.server_close(): the listening socket is closed, and
\* connections still waiting to be accepted are refused. The handler threads
\* are daemon threads (line 158), so they are not joined.
ServerClose ==
    /\ serve.pc = "closing"
    /\ serve' = [serve EXCEPT !.pc = "returned", !.listening = FALSE]
    /\ conn' = [c \in Conns |-> IF conn[c].st = "backlog" THEN Close(conn[c], "refused")
                                ELSE conn[c]]
    /\ UNCHANGED <<global_vars, sys_stdout, shut, lastw, nsent, switch_vars>>

\* Handler threads that are not daemon threads: the interpreter waits for them.
AtExitJoin(cr) == cr

\* A handler thread when the main thread ends: daemon_threads = True
\* (line 158), so the interpreter exits without waiting for it and the
\* process's sockets are closed.
AtExit(cr) == IF cr.st \notin {"none", "closed"} THEN Close(cr, "killed") ELSE cr

\* Line 189: start_server() returned, the main thread ends.
ProcessExit ==
    /\ serve.pc = "returned"
    /\ serve' = [serve EXCEPT !.pc = "exited"]
    /\ conn' = [c \in Conns |-> AtExit(conn[c])]
    /\ shut' = [c \in Conns |-> IF shut[c] \in {"start", "wait"} THEN "killed" ELSE shut[c]]
    /\ UNCHANGED <<global_vars, sys_stdout, lastw, nsent, switch_vars>>

\* Line 130, the thread running server.shutdown(): request the shutdown ...
ShutRequest(c) ==
    /\ shut[c] = "start"
    /\ shut' = [shut EXCEPT ![c] = "wait"]
    /\ serve' = [serve EXCEPT !.shutdown_request = TRUE]
    /\ UNCHANGED <<global_vars, sys_stdout, conn, lastw, nsent, switch_vars>>

\* ... and wait until serve_forever() has returned.
ShutWait(c) ==
    /\ shut[c] = "wait"
    /\ serve.is_shut_down
    /\ shut' = [shut EXCEPT ![c] = "done"]
    /\ UNCHANGED <<global_vars, sys_stdout, conn, serve, lastw, nsent, switch_vars>>

\* ---------------------------------------------------------- specification
Handler(c) ==
    \/ Greet(c) \/ ReadFault(c) \/ DoEmpty(c)
    \/ DoEvalBegin(c) \/ EvalRun(c) \/ EvalFail(c) \/ EvalEnd(c)
    \/ DoExec(c) \/ DoGet(c) \/ DoSet(c) \/ SetStore(c)
    \/ DoSetJson(c) \/ DoGetJson(c)
    \/ DoExit(c) \/ DoClose(c) \/ DoUnrecognized(c)

Main ==
    ServeCheck \/ MainShutdown \/ MainShutdownWait \/ ServerClose \/ ProcessExit

Next ==
    \/ \E c \in Conns : ClientConnect(c) \/ PeerReset(c)
    \/ \E c \in Conns, text \in Lines : ClientSend(c, text)
    \/ \E c \in Conns : Handler(c)
    \/ \E c \in Conns : ServeAccept(c) \/ ShutRequest(c) \/ ShutWait(c)
    \/ Main

Spec == Init /\ [][Next]_vars

\* The threads of the process keep running: the main thread, and each
\* shutdown thread once started. Nothing is assumed of the clients.
LiveSpec ==
    /\ Spec
    /\ WF_vars(Main \/ \E c \in Conns : ServeAccept(c))
    /\ \A c \in Conns : WF_vars(ShutRequest(c) \/ ShutWait(c))

\* --------------------------------------------------- the power switch
\* hdd/power.py, class Switch: an FTDI device in bitbang mode switches the
\* power supply of a drive. Python's None is the empty sequence here and a
\* value v is <<v>>.
ON == 177

OFF == 113

ByteMask == 255

MaxCalls == 4

\* What getBitMode() may return: the complements of ON and OFF, the
\* complements of 1 and 0, and the complement of a value that is none of them.
BitModes == {78, 142, 254, 255, 0}

\* What a device call may do: raise (the empty sequence) or return a value.
Outcomes == {<<>>} \cup {<<v>> : v \in BitModes}

\* The arguments state() is called with: none, 0, 1, and a value that is
\* neither.
NewStates == {<<>>, <<0>>, <<1>>, <<2>>}

\* ~state & 0xFF
Invert(v) == (-v - 1) % (ByteMask + 1)

Call(op, arg, ok, ret) ==
    [n |-> called.n + 1, op |-> op, arg |-> arg, ok |-> ok, ret |-> ret]

\* Switch.init(): the handle is kept if ft.open() and getDeviceInfo()
\* succeed, and _dev is None if either raises.
Switch_init(opens) ==
    /\ called.n < MaxCalls
    /\ switch' = [switch EXCEPT !.dev = IF opens THEN <<"handle">> ELSE <<>>]
    /\ called' = Call("init", <<>>, opens, <<>>)
    /\ UNCHANGED <<ftdi, server_vars>>

\* The body of Switch.read() on the object sw, when getBitMode() does what
\* outcome says: the new _state, the value returned, and the device
\* operations issued.
Read(sw, outcome) ==
    IF sw.dev = <<>> THEN [state |-> sw.state, ret |-> <<>>, ops |-> 0]
    ELSE IF outcome = <<>> THEN [state |-> sw.state, ret |-> <<>>, ops |-> 1]
    ELSE LET state == Invert(outcome[1])
         IN  [state |-> <<state>>,
              ret |-> IF state = ON THEN <<1>> ELSE IF state = OFF THEN <<0>> ELSE <<>>,
              ops |-> 1]

\* Switch.read()
Switch_read(outcome) ==
    /\ called.n < MaxCalls
    /\ LET r == Read(switch, outcome)
       IN  /\ switch' = [switch EXCEPT !.state = r.state]
           /\ ftdi' = [ftdi EXCEPT !.ops = @ + r.ops]
           /\ called' = Call("read", <<>>, r.ops = 1 /\ outcome # <<>>, r.ret)
    /\ UNCHANGED server_vars

\* Switch.state(newState): setBitMode() raises or sets the mask.
Switch_state(newState, outcome, raises) ==
    /\ called.n < MaxCalls
    /\ IF switch.dev = <<>>
       THEN /\ called' = Call("state", newState, FALSE, <<>>)
            /\ UNCHANGED <<switch, ftdi>>
       ELSE IF newState = <<>>
       THEN LET r == Read(switch, outcome)
            IN  /\ switch' = [switch EXCEPT !.state = r.state]
                /\ ftdi' = [ftdi EXCEPT !.ops = @ + r.ops]
                /\ called' = Call("state", newState, outcome # <<>>, r.ret)
       ELSE IF newState[1] \notin {0, 1}
       THEN /\ called' = Call("state", newState, FALSE, <<>>)
            /\ UNCHANGED <<switch, ftdi>>
       ELSE /\ switch' = [switch EXCEPT !.state = IF raises THEN @ ELSE newState]
            /\ ftdi' = [ops |-> ftdi.ops + 1,
                        mask |-> IF raises THEN ftdi.mask
                                 ELSE IF newState[1] = 0 THEN <<OFF>> ELSE <<ON>>]
            /\ called' = Call("state", newState, ~raises, <<>>)
    /\ UNCHANGED server_vars

\* Switch.__str__(): the state it names.
Switch_str(sw) ==
    IF sw.state = <<1>> THEN "ON" ELSE IF sw.state = <<0>> THEN "OFF" ELSE "Unknown"

SwitchNext ==
    \/ \E opens \in BOOLEAN : Switch_init(opens)
    \/ \E outcome \in Outcomes : Switch_read(outcome)
    \/ \E newState \in NewStates, outcome \in Outcomes, raises \in BOOLEAN :
          Switch_state(newState, outcome, raises)

\* A program that makes a Switch and calls its methods, as the script at the
\* end of power.py does.
SwitchSpec == Init /\ [][SwitchNext]_vars

\* ------------------------------------------------------------- properties
Last(s) == s[Len(s)]

Open(c) == conn[c].st \notin {"none", "closed"}

\* A /close was acknowledged on connection c and its shutdown thread started.
CloseAcked(c) == shut[c] # "none"

\* C1: once one connection's /close has been acknowledged, every other
\* connection that is open is eventually closed, also when its client never
\* sends a line and its handler stays blocked in readline().
C1_CloseClosesOthers ==
    \A d \in Conns :
        (Open(d) /\ \E c \in Conns \ {d} : CloseAcked(c)) ~> (conn[d].st = "closed")

\* A connection that was greeted, never sent a line, and was closed when the
\* process exited after another connection's /close.
C1_Witness ==
    \E c \in Conns, d \in Conns :
        /\ c # d
        /\ CloseAcked(c)
        /\ conn[d].sent = 0
        /\ conn[d].out # <<>>
        /\ conn[d].how = "killed"

\* serve_forever() has returned and the listening socket is released.
Stopped == ~serve.listening /\ serve.pc \in {"returned", "exited"}

\* C10: after an acknowledged /close the server eventually stops for good
\* (serve_forever() has returned, the listening socket is closed), and from
\* then on no connection is handed to a handler.
C10_CloseStopsAccepting ==
    /\ \A c \in Conns : CloseAcked(c) ~> []Stopped
    /\ [][Stopped => \A d \in Conns : conn'[d].st = "hello" => conn[d].st = "hello"]_vars

\* The server has stopped after an acknowledged /close while a client had
\* not connected yet.
C10_Witness ==
    \E c \in Conns, d \in Conns :
        /\ CloseAcked(c)
        /\ conn[c].out # <<>>
        /\ Last(conn[c].out).tag = "Closing"
        /\ Stopped
        /\ conn[d].st = "none"

\* In this step the handler of c takes the line it was waiting for.
Takes(c) == Ready(c) /\ conn'[c].sock = <<>>

\* C2: whatever the interleaving of the writers, every name holds the value
\* of the last write to it: writes to other names are retained, and of the
\* writes to one name the last one stands.
C2_LastWriterWins ==
    /\ DOMAIN global_vars = DOMAIN lastw
    /\ \A k \in DOMAIN lastw : global_vars[k] = lastw[k].val

\* Two connections have each completed a /set, to different names, and both
\* names are in the dictionary.
C2_Witness ==
    \E a \in Conns, b \in Conns :
        /\ a # b
        /\ conn[a].out # <<>> /\ Last(conn[a].out).tag = "SetOk"
        /\ conn[b].out # <<>> /\ Last(conn[b].out).tag = "SetOk"
        /\ DOMAIN global_vars = {<<"x">>, <<"y">>}
        /\ \A k \in DOMAIN lastw : lastw[k].verb = "/set"

\* C3: when the expression of an /eval raises after it has printed, the
\* reply that follows leaves sys.stdout off the capture and hands the printed
\* text to the client.
C3_TextBeforeFaultReturned ==
    [][\A c \in Conns :
          (conn[c].st = "eval_fail" /\ conn[c].buf # <<>> /\ conn'[c].st = "read")
          => /\ sys_stdout' # Stream(c, conn[c].cur.k)
             /\ \E i \in DOMAIN conn'[c].out :
                   /\ conn'[c].out[i].tag = "Print"
                   /\ conn'[c].out[i].k = conn[c].cur.k
                   /\ conn'[c].out[i].body = conn[c].buf]_vars

\* C4: the step that handles an empty line or /exit closes that connection
\* and nothing else: the other handlers are where they were, the server and
\* the shutdown threads are untouched, and so is the dictionary.
C4_ExitEndsOnlyIssuer ==
    [][\A c \in Conns :
          (Takes(c) /\ (NextLine(c) = <<>> \/ CmdOf(NextLine(c)) = <<"/exit">>))
          => /\ conn'[c].st = "closed"
             /\ \A d \in Conns \ {c} : conn'[d].st = conn[d].st /\ conn'[d].out = conn[d].out
             /\ serve' = serve
             /\ shut' = shut
             /\ global_vars' = global_vars]_vars

\* One connection has ended by /exit or an empty line while another is
\* still reading, the server is still serving and the dictionary has an entry.
C4_Witness ==
    \E c \in Conns, d \in Conns :
        /\ conn[c].how \in {"exit", "empty"}
        /\ conn[d].st = "read"
        /\ serve.pc \in {"loop", "accept"} /\ serve.listening
        /\ global_vars # EmptyDict

\* C5: a handler leaves its loop only on /exit, /close, an empty line, a
\* transport fault, or the end of the process: never because of an exception
\* raised while a verb is processed.
C5_OnlyTransportFaultsLeaveLoop ==
    \A c \in Conns :
        conn[c].st = "closed"
        => conn[c].how \in {"exit", "close", "empty", "fault", "refused", "killed"}

\* C6: a /get_json of a name whose last write was a /set_json of the text V
\* replies with JSON text that parses to the same value as V.
C6_JsonRoundTrip ==
    [][\A c \in Conns :
          LET name == Strip(ArgOf(NextLine(c)))
          IN  (/\ Takes(c)
               /\ CmdOf(NextLine(c)) = <<"/get_json">>
               /\ Has(lastw, name)
               /\ lastw[name].verb = "/set_json")
              => /\ Len(conn'[c].out) = Len(conn[c].out) + 1
                 /\ Last(conn'[c].out).tag = "Json"
                 /\ JsonLoads(Last(conn'[c].out).body).ok
                 /\ JsonLoads(Last(conn'[c].out).body).val = JsonLoads(lastw[name].text).val]_vars

\* A connection whose last two replies are the success of a /set_json and
\* the JSON text of the /get_json after it, which is not the text it sent.
C6_Witness ==
    \E c \in Conns :
        LET n == Len(conn[c].out)
        IN  /\ n >= 2
            /\ conn[c].out[n - 1].tag = "SetJsonOk"
            /\ conn[c].out[n].tag = "Json"
            /\ Has(lastw, <<"x">>)
            /\ conn[c].out[n].body # lastw[<<"x">>].text

\* C7: a /get of a name whose last write was a /set of the value v, on
\* whichever connection, replies with v in double quotes when v is a string
\* and with str(v) on one line otherwise.
C7_GetRendersSet ==
    [][\A c \in Conns :
          LET name == ArgOf(NextLine(c))
          IN  (/\ Takes(c)
               /\ CmdOf(NextLine(c)) = <<"/get">>
               /\ Has(lastw, name)
               /\ lastw[name].verb = "/set")
              => LET v == lastw[name].val
                     r == Last(conn'[c].out)
                 IN  /\ Len(conn'[c].out) = Len(conn[c].out) + 1
                     /\ r.tag = "Value"
                     /\ IF v.t = "str"
                        THEN r.body = <<"\"">> \o v.v \o <<"\"">>
                        ELSE /\ CountNewlines(r.body) = 0
                             /\ Len(r.body) = Len(v.v)
                             /\ \A i \in 1..Len(v.v) : v.v[i] # "\n" => r.body[i] = v.v[i]]_vars

\* One connection has set a value whose str() has a line break and the other
\* has got it.
C7_Witness ==
    \E a \in Conns, b \in Conns :
        /\ a # b
        /\ conn[a].out # <<>> /\ Last(conn[a].out).tag = "SetOk"
        /\ conn[b].out # <<>> /\ Last(conn[b].out).tag = "Value"
        /\ Has(lastw, <<"x">>)
        /\ lastw[<<"x">>].val = Ones

\* C8: a /get of a name that is not in the dictionary replies that the
\* variable was not found, leaves the dictionary as it was, and the handler
\* goes back to reading.
C8_GetAbsent ==
    [][\A c \in Conns :
          LET name == ArgOf(NextLine(c))
          IN  (Takes(c) /\ CmdOf(NextLine(c)) = <<"/get">> /\ ~Has(global_vars, name))
              => /\ Len(conn'[c].out) = Len(conn[c].out) + 1
                 /\ Last(conn'[c].out) = Reply(Head(conn[c].sock).k, "NotFound", name)
                 /\ conn'[c].st = "read"
                 /\ global_vars' = global_vars]_vars

\* A connection was told that y was not found while x was in the dictionary,
\* and it is reading again.
C8_Witness ==
    \E c \in Conns :
        /\ conn[c].st = "read"
        /\ conn[c].out # <<>>
        /\ Last(conn[c].out).tag = "NotFound"
        /\ Last(conn[c].out).body = <<"y">>
        /\ DOMAIN global_vars = {<<"x">>}

\* C9: whenever a handler is back at readline(), the last reply it wrote is
\* the reply to the last line it took off the socket: the k-th reply belongs
\* to the k-th command, written before the next is read.
C9_ReplyPerCommand ==
    \A c \in Conns :
        conn[c].st = "read"
        => /\ conn[c].out # <<>>
           /\ Last(conn[c].out).k = conn[c].sent - Len(conn[c].sock)

\* The shutdown() call of the thread started by the /close of c is under way.
ShutPending(c) == shut[c] \in {"start", "wait"}

\* C11: no shutdown() call blocks for good. The call of every thread a /close
\* started, a second /close included, finds the event it waits for set and
\* returns, unless the process ends first, which only happens with the event
\* set; the call in the finally block finds the event set whenever it waits;
\* and serve_forever() has returned by then.
C11_ShutdownReturns ==
    /\ \A c \in Conns :
          ShutPending(c) ~> (serve.is_shut_down /\ shut[c] \in {"done", "killed"})
    /\ [](serve.pc \in {"shut_wait", "closing"} => serve.is_shut_down)
    /\ [](\A c \in Conns : shut[c] \in {"done", "killed"} => serve.is_shut_down)

\* Both connections sent /close, both shutdown() calls have returned, and so
\* has the one in the finally block.
C11_Witness ==
    /\ \A c \in Conns : shut[c] = "done"
    /\ serve.pc = "returned"
    /\ serve.is_shut_down

\* The /set line the handler of c is about to take has no '=', or the
\* expression after the '=' raises an Exception.
SetFails(c) ==
    LET parts == Split1(ArgOf(NextLine(c)), "=")
    IN  /\ CmdOf(NextLine(c)) = <<"/set">>
        /\ \/ Len(parts) < 2
           \/ PyEval(parts[2], global_vars).kind = "error"

\* C12: the step that handles a /set with no '=' or with an expression that
\* raises writes one reply, a "Server error: <message>" line for that
\* command, leaves the dictionary as it was, and the handler goes back to
\* reading.
C12_SetFailureReported ==
    [][\A c \in Conns :
          (Takes(c) /\ SetFails(c))
          => /\ Len(conn'[c].out) = Len(conn[c].out) + 1
             /\ Last(conn'[c].out).tag = "ServerError"
             /\ Last(conn'[c].out).k = Head(conn[c].sock).k
             /\ Last(conn'[c].out).body # <<>>
             /\ global_vars' = global_vars
             /\ conn'[c].st = "read"
             /\ conn'[c].how = "open"]_vars

\* A connection set x, then sent a /set that failed (no '=', or a division by
\* zero): it was told so, x is still the only name, and it is reading again.
C12_Witness ==
    \E c \in Conns :
        /\ conn[c].st = "read"
        /\ Len(conn[c].out) = 3
        /\ conn[c].out[2].tag = "SetOk"
        /\ conn[c].out[3].tag = "ServerError"
        /\ conn[c].out[3].body \in {<<"division by zero">>,
                                    <<"not enough values to unpack (expected 2, got 1)">>}
        /\ DOMAIN global_vars = {<<"x">>}

\* The /set_json line the handler of c is about to take has a name and a
\* JSON text that does not parse.
SetJsonFails(c) ==
    LET parts == Split1(ArgOf(NextLine(c)), " ")
    IN  /\ CmdOf(NextLine(c)) = <<"/set_json">>
        /\ Len(parts) = 2
        /\ ~JsonLoads(parts[2]).ok

\* C13: the step that handles a /set_json whose JSON text does not parse
\* writes one reply, a "Set JSON error: <message>" line for that command,
\* leaves the dictionary as it was (the name keeps its value or stays
\* absent), and the handler goes back to reading.
C13_SetJsonFailureReported ==
    [][\A c \in Conns :
          (Takes(c) /\ SetJsonFails(c))
          => /\ Len(conn'[c].out) = Len(conn[c].out) + 1
             /\ Last(conn'[c].out).tag = "SetJsonError"
             /\ Last(conn'[c].out).k = Head(conn[c].sock).k
             /\ Last(conn'[c].out).body # <<>>
             /\ global_vars' = global_vars
             /\ conn'[c].st = "read"
             /\ conn'[c].how = "open"]_vars

\* A connection was told its JSON text did not parse while x was bound, by
\* an earlier command, to a value it still has; the connection is reading
\* again.
C13_Witness ==
    \E c \in Conns :
        /\ conn[c].st = "read"
        /\ conn[c].out # <<>>
        /\ Last(conn[c].out).tag = "SetJsonError"
        /\ Has(global_vars, <<"x">>)
        /\ global_vars[<<"x">>] = lastw[<<"x">>].val
        /\ global_vars[<<"x">>] # None

\* The text one sendall of an /eval result (lines 69-73) or of a /get value
\* (lines 83-87) puts on the wire: the rendered value and the terminator.
Wire(r) ==
    (IF r.tag = "Result" THEN <<"Result: ">> ELSE <<>>) \o r.body \o <<"\n">>

\* C14: every /eval result reply and every /get value reply that was sent is
\* one frame: its text has exactly one line terminator, the one at its end.
C14_OneFramePerReply ==
    \A c \in Conns :
        \A i \in DOMAIN conn[c].out :
            conn[c].out[i].tag \in {"Result", "Value"}
            => /\ CountNewlines(Wire(conn[c].out[i])) = 1
               /\ Last(Wire(conn[c].out[i])) = "\n"

\* In this step the handler of c leaves its loop on a transport fault.
Faults(c) == conn[c].st # "closed" /\ conn'[c].st = "closed" /\ conn'[c].how = "fault"

\* C15: a transport fault ends the handler of the connection it happens on
\* and nothing else. In the step in which a handler leaves its loop on a
\* fault, every other connection, the accept loop and the shutdown threads
\* are as they were, and the dictionary holds what the interrupted command
\* itself had stored before its reply failed; and a handler whose peer has
\* reset the connection writes nothing more and never reads again.
C15_FaultEndsOnlyThatConnection ==
    /\ [][\A c \in Conns :
            Faults(c)
            => /\ \A d \in Conns \ {c} : conn'[d] = conn[d]
               /\ serve' = serve
               /\ shut' = shut
               /\ global_vars' = IF conn[c].st = "set_store"
                                 THEN DictSet(global_vars, conn[c].name, conn[c].res.val)
                                 ELSE global_vars]_vars
    /\ [][\A c \in Conns :
            conn[c].peer = "reset"
            => conn'[c].out = conn[c].out /\ conn'[c].st # "read"]_vars

\* One connection has ended on a fault after it was greeted; the other has had
\* a reply to a command and reads on, the server still serves, and the
\* dictionary has an entry.
C15_Witness ==
    \E c \in Conns, d \in Conns :
        /\ conn[c].how = "fault"
        /\ conn[c].out # <<>>
        /\ conn[d].st = "read"
        /\ Len(conn[d].out) >= 2
        /\ serve.pc \in {"loop", "accept"} /\ serve.listening
        /\ ~serve.shutdown_request
        /\ global_vars # EmptyDict

\* The handler of c is in its loop: reading, or processing a command.
InLoop(c) == conn[c].st \in {"read", "eval_run", "eval_ok", "eval_fail", "set_store"}

\* C16: the greeting is the first thing written on a connection and is
\* written once; a handler is in its loop, and so reads a command or writes
\* a reply, only after it; and a connection that is closed stays exactly as
\* it is: nothing more is read from it or written to it.
C16_GreetingOnceClosedTerminal ==
    /\ [](\A c \in Conns :
            /\ \A i \in DOMAIN conn[c].out : (conn[c].out[i].tag = "Hello") <=> (i = 1)
            /\ InLoop(c) => conn[c].out # <<>>
            /\ conn[c].st \in {"none", "backlog", "hello"}
               => conn[c].out = <<>> /\ conn[c].cur = NoCmd)
    /\ [][\A c \in Conns : conn[c].st = "closed" => conn'[c] = conn[c]]_vars

\* A connection was greeted, got the reply to a command, and was closed with
\* a line still unread on its socket.
C16_Witness ==
    \E c \in Conns :
        /\ conn[c].st = "closed"
        /\ Len(conn[c].out) >= 2
        /\ conn[c].out[1].tag = "Hello"
        /\ conn[c].sock # <<>>

\* The handler of c is between the redirect of sys.stdout (line 54) and its
\* restore (line 58 or 63).
InEval(c) == conn[c].st \in {"eval_run", "eval_ok", "eval_fail"}

\* C17: whenever no /eval is executing on any connection, sys.stdout is the
\* stream the process started with. Stated for the /eval commands that ran
\* their save, redirect and restore to the end: states in which a handler
\* thread ended inside an /eval (SystemExit, or the end of the process) are
\* left aside.
C17_StdoutRestored ==
    (\A c \in Conns : ~InEval(c) /\ conn[c].how \notin {"escaped", "killed"})
    => sys_stdout = <<Orig, 0>>

\* C18: the captured output forwarded to a client holds only what its own
\* /eval printed: every line of every [PYTHON_PRINT] frame sent on a
\* connection was emitted by that connection's /eval, not by the /eval of
\* another connection and not by a diagnostic print of the server.
C18_CaptureOnlyOwnOutput ==
    \A c \in Conns :
        \A i \in DOMAIN conn[c].out :
            conn[c].out[i].tag = "Print"
            => \A j \in DOMAIN conn[c].out[i].body : conn[c].out[i].body[j] = c

\* The lines the handler of c has pulled from the socket with the line it is
\* about to take and will not read: those that are not blank.
Dropped(c) ==
    {i \in 2..Len(conn[c].sock) : CommandLine(conn[c].sock[i].text) # <<>>}

\* C19: no line that has arrived is lost to a discarded reader: when a
\* handler takes a line and goes on with its loop, no line that is not
\* blank had arrived behind the one it took.
C19_NoArrivedLineLost ==
    [][\A c \in Conns :
          (Takes(c) /\ conn'[c].st # "closed") => Dropped(c) = {}]_vars

\* The last call returned 1 from a read, or was a state(1) that set the mask.
LastSaysOn ==
    \/ called.ret = <<1>>
    \/ called.op = "state" /\ called.arg = <<1>> /\ called.ok

\* The last call returned 0 from a read, or was a state(0) that set the mask.
LastSaysOff ==
    \/ called.ret = <<0>>
    \/ called.op = "state" /\ called.arg = <<0>> /\ called.ok

\* C20: the state the string representation names agrees with the last
\* result: ON after a read that returned 1 or a state(1) that succeeded, OFF
\* after a read that returned 0 or a state(0) that succeeded; and a state()
\* call on a Switch with no device, or with a value that is neither 0 nor 1,
\* asks nothing of the device and leaves the recorded state as it was.
C20_StrAgreesWithLastResult ==
    /\ [](LastSaysOn => Switch_str(switch) = "ON")
    /\ [](LastSaysOff => Switch_str(switch) = "OFF")
    /\ [][(/\ called'.n = called.n + 1
           /\ called'.op = "state"
           /\ (switch.dev = <<>> \/ called'.arg \notin {<<>>, <<0>>, <<1>>}))
          => ftdi' = ftdi /\ switch' = switch]_vars

====
